---- MODULE Spec2Model ----
(***************************************************************************)
(* A state-machine model of onepassword_secrets.py: the four workflows     *)
(* (fly import, fly edit, local get, local push), the 1Password vault      *)
(* client, the fly GraphQL publisher, the git remote resolver and the      *)
(* top-level exit-code mapping of main().                                  *)
(*                                                                         *)
(* Text is a sequence of lines; a line is a record [k, v, eol] standing    *)
(* for the characters  k=v<eol>.  Titles, URLs and prompt answers are      *)
(* sequences of one-character strings.                                     *)
(***************************************************************************)
EXTENDS Integers, Sequences, FiniteSets, TLC

\* ---------------------------------------------------------------- bounds
MaxLen == 2          \* longest text (in lines) of a notes field or a file
MaxPrompts == 2      \* most invalid answers a user gives to the y/n prompt

\* ------------------------------------------------------------- constants
DEFAULT_ENV_FILE_NAME == ".env"

\* Python's None, for a text value, a file name and an item id.
NoneText == << [k |-> "<None>", v |-> "", eol |-> ""] >>
NoneName == "<None>"
NoneId == "<None>"

\* ------------------------------------------------------------------ text
Line == { [k |-> "A", v |-> "1", eol |-> "LF"],
          [k |-> "B", v |-> "",  eol |-> "LF"],
          [k |-> "A", v |-> "2", eol |-> "CRLF"] }

Texts == UNION { [1..n -> Line] : n \in 0..MaxLen }

\* file.read() of a file opened in text mode (universal newlines): every
\* line ending comes back as "\n".
TextRead(raw) == [i \in DOMAIN raw |-> [raw[i] EXCEPT !.eol = "LF"]]

\* dict[key] = value: a known key keeps its position and takes the new value.
DictPut(d, key, value) ==
    IF \E i \in DOMAIN d : d[i][1] = key
    THEN [i \in DOMAIN d |-> IF d[i][1] = key THEN <<key, value>> ELSE d[i]]
    ELSE Append(d, <<key, value>>)

RECURSIVE DotenvValues(_, _)
DotenvValues(text, d) ==
    IF text = << >> THEN d
    ELSE DotenvValues(Tail(text), DictPut(d, Head(text).k, Head(text).v))

\* get_secrets_from_envs: the SecretSet, an insertion-ordered dict, as a
\* sequence of <<key, value>> pairs with unique keys.
get_secrets_from_envs(input) == DotenvValues(input, << >>)

\* ---------------------------------------------------------- characters
Chars(w) ==
    CASE w = "https" -> <<"h","t","t","p","s">>
      [] w = "git"   -> <<"g","i","t">>
      [] w = "ssh"   -> <<"s","s","h">>
      [] w = "://"   -> <<":","/","/">>
      [] w = "@"     -> <<"@">>
      [] w = ".git"  -> <<".","g","i","t">>
      [] w = "xgit"  -> <<"x","g","i","t">>
      [] w = ".gi"   -> <<".","g","i">>
      [] w = ""      -> << >>
      [] w = "fly:"  -> <<"f","l","y",":">>
      [] w = "repo:" -> <<"r","e","p","o",":">>
      [] w = "ac"    -> <<"a","c">>
      [] w = "w"     -> <<"w">>
      [] w = "digit" -> <<"d","i","g","i","t">>
      [] w = "h"     -> <<"h">>
      [] w = "m"     -> <<"m">>
      [] w = "/"     -> <<"/">>
      [] w = ":"     -> <<":">>
      [] w = "x"     -> <<"x">>
      [] w = "\n"    -> <<"\n">>

StartsWith(s, p) == Len(s) >= Len(p) /\ SubSeq(s, 1, Len(p)) = p
Drop(s, n) == SubSeq(s, n + 1, Len(s))

\* `sub in s` for Python strings.
Contains(s, sub) ==
    \E i \in 0..(Len(s) - Len(sub)) : SubSeq(s, i + 1, i + Len(sub)) = sub

\* ------------------------------------------------- git remote resolver
\* One character of the class [^\/:] of GIT_REPOSITORY_REGEX.
NotSlashColon(c) == c \notin {"/", ":"}

\* Length of the greedy match of [^\/:]+ at the start of s (0: no match).
\* The class excludes the character that must follow it, so the longest
\* run is the only candidate.
ClassRun(s) ==
    CHOOSE n \in 0..Len(s) :
        /\ \A i \in 1..n : NotSlashColon(s[i])
        /\ (n = Len(s) \/ ~NotSlashColon(s[n + 1]))

\* The four characters that close the pattern: `.git`, where the dot is
\* the regex metacharacter (any character but a newline).
DotGit(tail4) ==
    /\ tail4[1] # "\n"
    /\ SubSeq(tail4, 2, 4) = Chars("git")

\* re.match(GIT_REPOSITORY_REGEX, s):
\*   ^(https|git)(:\/\/|@)([^\/:]+)[\/:]([^\/:]+)\/(.+).git$
\* `$` matches at the end and before a final newline; `.` matches no newline.
re_match(s) ==
    LET scheme == IF StartsWith(s, Chars("https")) THEN 5
                  ELSE IF StartsWith(s, Chars("git")) THEN 3 ELSE 0
        s1 == Drop(s, scheme)
        sep == IF StartsWith(s1, Chars("://")) THEN 3
               ELSE IF StartsWith(s1, Chars("@")) THEN 1 ELSE 0
        s2 == Drop(s1, sep)
        n3 == ClassRun(s2)
        s3 == Drop(s2, n3)
        s4 == Drop(s3, 1)
        n4 == ClassRun(s4)
        s5 == Drop(s4, n4)
        rest == Drop(s5, 1)
        body == IF rest # << >> /\ rest[Len(rest)] = "\n"
                THEN SubSeq(rest, 1, Len(rest) - 1) ELSE rest
        ok == /\ scheme > 0 /\ sep > 0
              /\ n3 > 0 /\ s3 # << >>
              /\ n4 > 0 /\ s5 # << >> /\ s5[1] = "/"
              /\ Len(body) >= 5
              /\ \A i \in 1..(Len(body) - 4) : body[i] # "\n"
              /\ DotGit(SubSeq(body, Len(body) - 3, Len(body)))
    IN  IF ok
        THEN [matched |-> TRUE, group4 |-> SubSeq(s4, 1, n4),
              group5 |-> SubSeq(body, 1, Len(body) - 4)]
        ELSE [matched |-> FALSE, group4 |-> << >>, group5 |-> << >>]

\* f'{regex_match.group(4)}/{regex_match.group(5)}'
repository_name(m) == m.group4 \o Chars("/") \o m.group5

\* --------------------------------------------------------- vault client
\* next((item['id'] for item in secure_notes if title_substring in
\* item['title']), None)
FirstItemId(notes, title_substring) ==
    IF \E i \in DOMAIN notes : Contains(notes[i].title, title_substring)
    THEN notes[CHOOSE i \in DOMAIN notes :
                 /\ Contains(notes[i].title, title_substring)
                 /\ \A j \in 1..(i - 1) :
                        ~Contains(notes[j].title, title_substring)].id
    ELSE NoneId

\* `result is None or result == ""` in get_envs_from_1password.
EmptySecrets(result) == result = NoneText \/ result = << >>

\* Mutation of Or: the default is always taken.
OrDefault(a, b) == b

\* Python's `a or b` for an optional file name: None and "" are falsy.
Or(a, b) == IF a = NoneName \/ a = "" THEN b ELSE a

\* str.lower() on the characters a prompt answer is made of.
LowerChar(c) ==
    CASE c = "Y" -> "y"
      [] c = "N" -> "n"
      [] c = "E" -> "e"
      [] c = "S" -> "s"
      [] OTHER -> c
lower(s) == [i \in DOMAIN s |-> LowerChar(s[i])]

\* ---------------------------------------------------- fly publisher
\* Mutation of secrets_input: entries with an empty value are filtered out.
secrets_input_nonempty(secrets) ==
    LET kept == SelectSeq(secrets, LAMBDA e : e[2] # "")
    IN  [i \in DOMAIN kept |-> [key |-> kept[i][1], value |-> kept[i][2]]]

\* secrets_input = [{'key': key, 'value': value} for key, value in
\* secrets.items()]
secrets_input(secrets) ==
    [i \in DOMAIN secrets |-> [key |-> secrets[i][1], value |-> secrets[i][2]]]

\* variables = {'appId': app_id, 'secrets': secrets_input, 'replaceAll': True}
variables(app_id, secrets) ==
    [appId |-> app_id, secrets |-> secrets_input(secrets), replaceAll |-> TRUE]

\* ------------------------------------------------------------- the world
AppName == Chars("m")                       \* args.app_name

TFly   == Chars("fly:") \o AppName
TRepo  == Chars("repo:") \o Chars("ac") \o Chars("/") \o Chars("w")
TOther == Chars("x")
TBoth  == TFly \o TRepo

Note(id, title) == [id |-> id, title |-> title]

\* Outputs of `op item list --categories "Secure Note"`.
SecureNoteLists ==
    { << >>,
      << Note("i1", TFly) >>,
      << Note("i1", TRepo) >>,
      << Note("i2", TOther), Note("i1", TFly) >>,
      << Note("i2", TOther), Note("i1", TRepo) >>,
      << Note("i1", TBoth), Note("i2", TBoth) >> }

ItemIds == {"i1", "i2"}
FileNames == {DEFAULT_ENV_FILE_NAME, "secrets.env"}

\* Values of the item's `file_name` field: absent, empty, set.
FileNameValues == {NoneName, "", "secrets.env"}

LineA1 == [k |-> "A", v |-> "1", eol |-> "LF"]
LineB  == [k |-> "B", v |-> "",  eol |-> "LF"]
OldText == << LineB >>
OtherText == << LineA1 >>

Item(notes, file_name) ==
    [notes |-> notes, file_name |-> file_name, imported |-> 0, edited |-> 0]

\* A remote.origin.url, kept as its parts; NoOrigin: no such remote.
Remote(scheme, sep, delim, name, suffix) ==
    [scheme |-> scheme, sep |-> sep, host |-> "h", delim |-> delim,
     owner |-> "ac", name |-> name, suffix |-> suffix]
NoOrigin == Remote("<none>", "", "", "", "")

UrlOf(r) ==
    Chars(r.scheme) \o Chars(r.sep) \o Chars(r.host) \o Chars(r.delim)
      \o Chars(r.owner) \o Chars("/") \o Chars(r.name) \o Chars(r.suffix)

AllRemotes ==
    { Remote(sc, sp, d, n, sf) :
        sc \in {"https", "git", "ssh"}, sp \in {"://", "@"},
        d \in {"/", ":"}, n \in {"w", "digit"},
        sf \in {".git", "xgit", ".gi", ""} }

WorkflowRemotes ==
    { Remote("git", "@", ":", "w", ".git"),
      Remote("https", "://", "/", "w", "xgit"),
      Remote("https", "://", "/", "w", ""),
      NoOrigin }

\* Answers typed at the y/n prompt.
Answers == { <<"y">>, <<"Y">>, <<"n">>, <<"N">>, << >>, <<"Y", "E", "S">> }

VARIABLES
    secure_notes,   \* vault: the list of Secure Note items (id, title)
    items,          \* vault: id -> notesPlain, file_name and the two stamps
    gitRemote,      \* the repository's remote.origin.url
    files,          \* local files: name -> raw content (NoneText: missing)
    remote,         \* fly: the app's secrets and its release version
    cmd,            \* the command of this invocation
    frame,          \* the workflow function being executed
    pc,             \* position in that function
    exitCode,       \* -1 while running
    failedAt,       \* the step that raised ("none": no step has)
    failKind,       \* the kind of error raised
    item_id, secrets, output, secretSet, env_file_name, repository,
    user_input,     \* locals of the workflow functions
    tmp,            \* the NamedTemporaryFile of edit_1password_secrets
    editorSaw,      \* what `code --wait` found in the file when launched
    answers,        \* every answer given to the prompt, in order
    requests,       \* the mutation variables sent to the GraphQL endpoint
    remoteCalls,    \* calls made to fly (CLI and API)
    written,        \* local files written by this invocation
    readFrom,       \* local files read by this invocation
    log,            \* observable events of this invocation, in order
    prevCmd,        \* the command of the previous invocation
    pushedText      \* raw content of the file the previous push read

envVars == <<secure_notes, gitRemote>>
worldVars == <<items, files, remote>>
ctlVars == <<cmd, frame, pc, exitCode, failedAt, failKind>>
localVars == <<item_id, secrets, output, secretSet, env_file_name,
               repository, user_input, tmp>>
obsVars == <<editorSaw, answers, requests, remoteCalls, written, readFrom,
             log>>
histVars == <<prevCmd, pushedText>>
vars == <<envVars, worldVars, ctlVars, localVars, obsVars, histVars>>

NoTmp == [state |-> "none", disk |-> << >>]

\* The first statement of each workflow function.
Entry(f) == IF f \in {"import", "edit"} THEN "lookup" ELSE "git"

StartOf(c) ==
    /\ cmd = c /\ frame = c /\ pc = Entry(c)
    /\ exitCode = -1 /\ failedAt = <<"none", "none">> /\ failKind = "none"
    /\ item_id = NoneId /\ secrets = NoneText /\ output = NoneText
    /\ secretSet = << >> /\ env_file_name = NoneName
    /\ repository = << >> /\ user_input = << >> /\ tmp = NoTmp
    /\ editorSaw = NoneText /\ answers = << >> /\ requests = << >>
    /\ remoteCalls = 0 /\ written = {} /\ readFrom = {} /\ log = << >>

InitFly(c) ==
    /\ StartOf(c)
    /\ secure_notes \in SecureNoteLists
    /\ \E n \in Texts \cup {NoneText} :
          items = [i \in ItemIds |->
                     IF i = "i1" THEN Item(n, NoneName)
                     ELSE Item(OtherText, NoneName)]
    /\ gitRemote = NoOrigin
    /\ files = [f \in FileNames |-> NoneText]
    /\ remote = [secrets |-> << [key |-> "OLD", value |-> "0"] >>,
                 version |-> 0]
    /\ prevCmd = "none" /\ pushedText = NoneText

InitGet ==
    /\ StartOf("get")
    /\ secure_notes \in SecureNoteLists
    /\ \E n \in Texts \cup {NoneText}, fn \in FileNameValues :
          items = [i \in ItemIds |->
                     IF i = "i1" THEN Item(n, fn)
                     ELSE Item(OtherText, NoneName)]
    /\ gitRemote \in WorkflowRemotes
    /\ files = [f \in FileNames |-> OldText]
    /\ remote = [secrets |-> << [key |-> "OLD", value |-> "0"] >>,
                 version |-> 0]
    /\ prevCmd = "none" /\ pushedText = NoneText

InitPush ==
    /\ StartOf("push")
    /\ secure_notes \in SecureNoteLists
    /\ \E fn \in FileNameValues :
          items = [i \in ItemIds |->
                     IF i = "i1" THEN Item(OldText, fn)
                     ELSE Item(OtherText, NoneName)]
    /\ gitRemote \in WorkflowRemotes
    /\ \E t \in Texts \cup {NoneText} :
          files = [f \in FileNames |->
                     IF f = DEFAULT_ENV_FILE_NAME THEN t ELSE OtherText]
    /\ remote = [secrets |-> << [key |-> "OLD", value |-> "0"] >>,
                 version |-> 0]
    /\ prevCmd = "none" /\ pushedText = NoneText

Init == InitFly("import") \/ InitFly("edit") \/ InitGet \/ InitPush

\* ------------------------------------------------------- control flow
Here == <<frame, pc>>
NoStep == <<"none", "none">>

\* Mutation of raise_error: the message is printed and nothing is raised,
\* so the failed step is run again.
raise_error_retry(kind) ==
    /\ pc' = pc /\ failedAt' = Here /\ failKind' = kind
    /\ log' = log
    /\ UNCHANGED <<cmd, frame, exitCode>>

\* raise_error(message): print(message); raise RuntimeError(message)
raise_error(kind) ==
    /\ pc' = "raised" /\ failedAt' = Here /\ failKind' = kind
    /\ log' = Append(log, "print:error")
    /\ UNCHANGED <<cmd, frame, exitCode>>

\* An exception raised by a callee (subprocess.CalledProcessError, OSError,
\* EOFError): nothing is printed by this program.
Raise(kind) ==
    /\ pc' = "raised" /\ failedAt' = Here /\ failKind' = kind
    /\ log' = log
    /\ UNCHANGED <<cmd, frame, exitCode>>

\* The step succeeded: its events are observed and control moves on.
Goto(next, events) ==
    /\ pc' = next /\ log' = log \o events
    /\ UNCHANGED <<cmd, frame, exitCode, failedAt, failKind>>

\* ------------------------------------------------------------ operations
get_git_repository_name_from_current_directory ==
    /\ pc = "git"
    /\ LET m == re_match(UrlOf(gitRemote) \o Chars("\n"))
       IN  IF gitRemote = NoOrigin
           THEN raise_error("NoOriginError") /\ repository' = repository
           ELSE IF ~m.matched
           THEN raise_error("UnparsableRemoteError")
                /\ repository' = repository
           ELSE repository' = repository_name(m) /\ Goto("lookup", << >>)
    /\ UNCHANGED <<envVars, worldVars, item_id, secrets, output, secretSet,
                   env_file_name, user_input, tmp, editorSaw, answers,
                   requests, remoteCalls, written, readFrom, histVars>>

get_1password_env_file_item_id ==
    /\ pc = "lookup"
    /\ \E ok \in BOOLEAN :
         LET title_substring ==
                 IF frame \in {"import", "edit"}
                 THEN Chars("fly:") \o AppName
                 ELSE Chars("repo:") \o repository
             id == FirstItemId(secure_notes, title_substring)
         IN  IF ~ok
             THEN Raise("ExternalProcessError") /\ item_id' = item_id
             ELSE IF id = NoneId
             THEN raise_error("LookupError") /\ item_id' = item_id
             ELSE /\ item_id' = id
                  /\ Goto(IF frame = "push" THEN "fname" ELSE "fetch",
                          <<"lookup">>)
    /\ UNCHANGED <<envVars, worldVars, secrets, output, secretSet,
                   env_file_name, repository, user_input, tmp, editorSaw,
                   answers, requests, remoteCalls, written, readFrom,
                   histVars>>

get_envs_from_1password ==
    /\ pc = "fetch"
    /\ \E ok \in BOOLEAN :
         LET result == items[item_id].notes
         IN  IF ~ok
             THEN Raise("ExternalProcessError")
                  /\ UNCHANGED <<secrets, secretSet>>
             ELSE IF EmptySecrets(result)
             THEN raise_error("EmptySecretsError")
                  /\ UNCHANGED <<secrets, secretSet>>
             ELSE IF frame = "import"
             THEN /\ secretSet' = get_secrets_from_envs(result)
                  /\ secrets' = secrets
                  /\ Goto("publish", <<"getNotes">>)
             ELSE /\ secrets' = result
                  /\ secretSet' = secretSet
                  /\ Goto(IF frame = "edit" THEN "tmp_write" ELSE "fname",
                          <<"getNotes">>)
    /\ UNCHANGED <<envVars, worldVars, item_id, output, env_file_name,
                   repository, user_input, tmp, editorSaw, answers,
                   requests, remoteCalls, written, readFrom, histVars>>

get_filename_from_1password ==
    /\ pc = "fname"
    /\ \E ok \in BOOLEAN :
         IF ~ok
         THEN Raise("ExternalProcessError") /\ env_file_name' = env_file_name
         ELSE /\ env_file_name' =
                     Or(items[item_id].file_name, DEFAULT_ENV_FILE_NAME)
              /\ Goto(IF frame = "get" THEN "write" ELSE "read",
                      <<"getFileName">>)
    /\ UNCHANGED <<envVars, worldVars, item_id, secrets, output, secretSet,
                   repository, user_input, tmp, editorSaw, answers,
                   requests, remoteCalls, written, readFrom, histVars>>

\* Mutation of update_fly_secrets: the `errors` entry of the response is
\* not looked at.
update_fly_secrets_unchecked ==
    /\ pc = "publish"
    /\ remoteCalls' = remoteCalls + 1
    /\ \E tokenOk \in BOOLEAN, response \in {"errors", "data"} :
         IF ~tokenOk
         THEN Raise("ExternalProcessError") /\ UNCHANGED <<requests, remote>>
         ELSE /\ requests' = Append(requests, variables(AppName, secretSet))
              /\ IF response = "errors"
                 THEN remote' = remote /\ Goto("stamp", << >>)
                 ELSE /\ remote' =
                           [secrets |-> variables(AppName, secretSet).secrets,
                            version |-> remote.version + 1]
                      /\ Goto("stamp",
                              <<"replaceAllSecrets", "print:release">>)
    /\ UNCHANGED <<envVars, items, files, item_id, secrets, output,
                   secretSet, env_file_name, repository, user_input, tmp,
                   editorSaw, answers, written, readFrom, histVars>>

update_fly_secrets ==
    /\ pc = "publish"
    /\ remoteCalls' = remoteCalls + 1
    /\ \E tokenOk \in BOOLEAN, response \in {"errors", "data"} :
         IF ~tokenOk
         THEN Raise("ExternalProcessError") /\ UNCHANGED <<requests, remote>>
         ELSE /\ requests' = Append(requests, variables(AppName, secretSet))
              /\ IF response = "errors"
                 THEN raise_error("RemoteApiError") /\ remote' = remote
                 ELSE /\ remote' =
                           [secrets |-> variables(AppName, secretSet).secrets,
                            version |-> remote.version + 1]
                      /\ Goto("stamp",
                              <<"replaceAllSecrets", "print:release">>)
    /\ UNCHANGED <<envVars, items, files, item_id, secrets, output,
                   secretSet, env_file_name, repository, user_input, tmp,
                   editorSaw, answers, written, readFrom, histVars>>

update_1password_secrets ==
    /\ pc = "update"
    /\ \E ok \in BOOLEAN :
         LET content == IF frame = "edit" THEN output ELSE secrets
         IN  IF ~ok
             THEN Raise("ExternalProcessError") /\ items' = items
             ELSE /\ items' = [items EXCEPT ![item_id].notes = content]
                  /\ Goto("stamp", <<"updateNotes">>)
    /\ UNCHANGED <<envVars, files, remote, localVars, editorSaw, answers,
                   requests, remoteCalls, written, readFrom, histVars>>

update_1password_custom_field ==
    /\ pc = "stamp"
    /\ \E ok \in BOOLEAN :
         IF ~ok
         THEN Raise("ExternalProcessError") /\ items' = items
         ELSE IF frame = "import"
         THEN /\ items' = [items EXCEPT
                             ![item_id].imported = items[item_id].imported + 1]
              /\ Goto("returned", <<"stamp:last imported at">>)
         ELSE /\ items' = [items EXCEPT
                             ![item_id].edited = items[item_id].edited + 1]
              /\ IF frame = "edit"
                 THEN Goto("prompt", <<"stamp:last edited at">>)
                 ELSE Goto("returned",
                           <<"stamp:last edited at", "print:pushed">>)
    /\ UNCHANGED <<envVars, files, remote, localVars, editorSaw, answers,
                   requests, remoteCalls, written, readFrom, histVars>>

\* --------------------------------------------- edit_1password_secrets
\* with NamedTemporaryFile('w+') as file: file.writelines(secrets);
\* file.flush()
edit_write_tmp ==
    /\ frame = "edit" /\ pc = "tmp_write"
    /\ tmp' = [state |-> "open", disk |-> secrets]
    /\ Goto("editor", <<"tmp_create", "tmp_flush">>)
    /\ UNCHANGED <<envVars, worldVars, item_id, secrets, output, secretSet,
                   env_file_name, repository, user_input, editorSaw,
                   answers, requests, remoteCalls, written, readFrom,
                   histVars>>

\* Mutation of edit_run_editor: the file is not a scoped resource, so a
\* failing editor leaves it behind.
edit_run_editor_leak ==
    /\ frame = "edit" /\ pc = "editor"
    /\ editorSaw' = tmp.disk
    /\ \E ok \in BOOLEAN, new \in Texts :
         IF ~ok
         THEN /\ tmp' = tmp
              /\ Raise("ExternalProcessError")
         ELSE /\ tmp' = [tmp EXCEPT !.disk = new]
              /\ Goto("reread", <<"editor">>)
    /\ UNCHANGED <<envVars, worldVars, item_id, secrets, output, secretSet,
                   env_file_name, repository, user_input, answers,
                   requests, remoteCalls, written, readFrom, histVars>>

\* subprocess.check_output(['code', '--wait', file.name]): the editor
\* finds what is on disk and leaves any text there; when it fails the
\* with block deletes the file on the way out.
edit_run_editor ==
    /\ frame = "edit" /\ pc = "editor"
    /\ editorSaw' = tmp.disk
    /\ \E ok \in BOOLEAN, new \in Texts :
         IF ~ok
         THEN /\ tmp' = [tmp EXCEPT !.state = "deleted"]
              /\ Raise("ExternalProcessError")
         ELSE /\ tmp' = [tmp EXCEPT !.disk = new]
              /\ Goto("reread", <<"editor">>)
    /\ UNCHANGED <<envVars, worldVars, item_id, secrets, output, secretSet,
                   env_file_name, repository, user_input, answers,
                   requests, remoteCalls, written, readFrom, histVars>>

\* file.seek(0); output = file.read(); then the with block ends and the
\* file is deleted, also when the read fails.
edit_reread ==
    /\ frame = "edit" /\ pc = "reread"
    /\ tmp' = [tmp EXCEPT !.state = "deleted"]
    /\ \E ok \in BOOLEAN :
         IF ~ok
         THEN Raise("OSError") /\ output' = output
         ELSE /\ output' = TextRead(tmp.disk)
              /\ Goto("compare", <<"tmp_read", "tmp_delete">>)
    /\ UNCHANGED <<envVars, worldVars, item_id, secrets, secretSet,
                   env_file_name, repository, user_input, editorSaw,
                   answers, requests, remoteCalls, written, readFrom,
                   histVars>>

\* Mutation of NoChanges: the comparison never finds the texts equal.
NoChangesNever(fetched, reread) == FALSE

\* if secrets == output
NoChanges(fetched, reread) == fetched = reread

edit_compare ==
    /\ frame = "edit" /\ pc = "compare"
    /\ IF NoChanges(secrets, output)
       THEN Goto("returned", <<"print:nochanges">>)
       ELSE Goto("update", << >>)
    /\ UNCHANGED <<envVars, worldVars, localVars, editorSaw, answers,
                   requests, remoteCalls, written, readFrom, histVars>>

\* Mutation of ValidAnswer: the answer is compared case-sensitively.
ValidAnswerCaseSensitive(a) == a \in { <<"y">>, <<"n">> }

\* user_input.lower() in ['y', 'n']
ValidAnswer(a) == lower(a) \in { <<"y">>, <<"n">> }

\* One turn of the while loop: input(...), then the loop test. The user
\* gives at most MaxPrompts invalid answers; a closed stdin raises EOFError.
edit_prompt ==
    /\ frame = "edit" /\ pc = "prompt"
    /\ \/ \E a \in Answers :
            /\ ValidAnswer(a) \/ Len(answers) < MaxPrompts
            /\ user_input' = a
            /\ answers' = Append(answers, a)
            /\ Goto(IF ValidAnswer(a) THEN "decide" ELSE "prompt",
                    <<"prompt">>)
       \/ /\ Raise("EOFError")
          /\ UNCHANGED <<user_input, answers>>
    /\ UNCHANGED <<envVars, worldVars, item_id, secrets, output, secretSet,
                   env_file_name, repository, tmp, editorSaw, requests,
                   remoteCalls, written, readFrom, histVars>>

\* if user_input.lower() == 'y': import_1password_secrets_to_fly(app_id)
WantsImport(a) == lower(a) = <<"y">>

edit_decide ==
    /\ frame = "edit" /\ pc = "decide"
    /\ IF WantsImport(user_input)
       THEN /\ frame' = "import" /\ pc' = Entry("import")
            /\ log' = Append(log, "call:import")
       ELSE /\ frame' = frame /\ pc' = "returned" /\ log' = log
    /\ UNCHANGED <<envVars, worldVars, cmd, exitCode, failedAt, failKind,
                   localVars, editorSaw, answers, requests, remoteCalls,
                   written, readFrom, histVars>>

\* --------------------------------------------------- get_local_secrets
\* with open(env_file_name, 'w') as file: file.writelines(secrets)
get_write_file ==
    /\ frame = "get" /\ pc = "write"
    /\ \E ok \in BOOLEAN :
         IF ~ok
         THEN Raise("OSError") /\ UNCHANGED <<files, written>>
         ELSE /\ files' = [files EXCEPT ![env_file_name] = secrets]
              /\ written' = written \cup {env_file_name}
              /\ Goto("returned", <<"file_write", "print:updated">>)
    /\ UNCHANGED <<envVars, items, remote, localVars, editorSaw, answers,
                   requests, remoteCalls, readFrom, histVars>>

\* -------------------------------------------------- push_local_secrets
\* with open(env_file_name, 'r') as file: secrets = file.read()
push_read_file ==
    /\ frame = "push" /\ pc = "read"
    /\ IF files[env_file_name] = NoneText
       THEN Raise("OSError") /\ UNCHANGED <<secrets, readFrom>>
       ELSE /\ secrets' = TextRead(files[env_file_name])
            /\ readFrom' = readFrom \cup {env_file_name}
            /\ Goto("update", <<"file_read">>)
    /\ UNCHANGED <<envVars, worldVars, item_id, output, secretSet,
                   env_file_name, repository, user_input, tmp, editorSaw,
                   answers, requests, remoteCalls, written, histVars>>

\* ------------------------------------------------------------------ main
\* Mutation of ExitCodeOf: the exception is swallowed (`except: pass`).
ExitCodeSwallowed(p) == IF p = "raised" THEN 0 ELSE 0

\* try: <workflow>  except Exception: sys.exit(1)
ExitCodeOf(p) == IF p = "raised" THEN 1 ELSE 0

main_exit ==
    /\ pc \in {"returned", "raised"}
    /\ exitCode' = ExitCodeOf(pc)
    /\ pc' = "exited"
    /\ UNCHANGED <<envVars, worldVars, cmd, frame, failedAt, failKind,
                   localVars, obsVars, histVars>>

\* A second invocation in the same repository, `local get` right after a
\* successful `local push`.
invoke_get_after_push ==
    /\ pc = "exited" /\ cmd = "push" /\ exitCode = 0 /\ prevCmd = "none"
    /\ prevCmd' = "push"
    /\ pushedText' = files[env_file_name]
    /\ cmd' = "get" /\ frame' = "get" /\ pc' = Entry("get")
    /\ exitCode' = -1 /\ failedAt' = NoStep /\ failKind' = "none"
    /\ item_id' = NoneId /\ secrets' = NoneText /\ output' = NoneText
    /\ secretSet' = << >> /\ env_file_name' = NoneName
    /\ repository' = << >> /\ user_input' = << >> /\ tmp' = NoTmp
    /\ editorSaw' = NoneText /\ answers' = << >> /\ requests' = << >>
    /\ remoteCalls' = 0 /\ written' = {} /\ readFrom' = {} /\ log' = << >>
    /\ UNCHANGED <<envVars, worldVars>>

\* --------------------------------------------------------- specifications
Next ==
    \/ get_git_repository_name_from_current_directory
    \/ get_1password_env_file_item_id
    \/ get_envs_from_1password
    \/ get_filename_from_1password
    \/ update_fly_secrets
    \/ update_1password_secrets
    \/ update_1password_custom_field
    \/ edit_write_tmp
    \/ edit_run_editor
    \/ edit_reread
    \/ edit_compare
    \/ edit_prompt
    \/ edit_decide
    \/ get_write_file
    \/ push_read_file
    \/ main_exit

Spec == Init /\ [][Next]_vars

\* local push, then local get.
NextPushGet ==
    \/ get_git_repository_name_from_current_directory
    \/ get_1password_env_file_item_id
    \/ get_envs_from_1password
    \/ get_filename_from_1password
    \/ update_1password_secrets
    \/ update_1password_custom_field
    \/ get_write_file
    \/ push_read_file
    \/ main_exit
    \/ invoke_get_after_push

SpecPushGet == InitPush /\ [][NextPushGet]_vars

\* The resolver alone, over every remote URL of AllRemotes.
InitGit ==
    /\ \E c \in {"get", "push"} : StartOf(c)
    /\ secure_notes = << Note("i1", TRepo) >>
    /\ items = [i \in ItemIds |-> Item(OldText, NoneName)]
    /\ gitRemote \in AllRemotes \cup {NoOrigin}
    /\ files = [f \in FileNames |-> OldText]
    /\ remote = [secrets |-> << >>, version |-> 0]
    /\ prevCmd = "none" /\ pushedText = NoneText

NextGit == get_git_repository_name_from_current_directory

SpecGit == InitGit /\ [][NextGit]_vars

\* ------------------------------------------------------------ properties
Has(e) == \E i \in DOMAIN log : log[i] = e

\* Every occurrence of event b in the log has an earlier event a.
Before(a, b) ==
    \A i \in DOMAIN log : log[i] = b => \E j \in 1..(i - 1) : log[j] = a

Last(seq) == seq[Len(seq)]

YesAnswers == { <<"y">>, <<"Y">> }
NoAnswers == { <<"n">>, <<"N">> }
YesNo == YesAnswers \cup NoAnswers

\* C1: in Remote Edit, when the text re-read from the temporary file equals
\* the notes text that was fetched, the run writes nothing to the vault,
\* stamps nothing, never prompts, never calls fly, and ends normally with
\* exit code 0.
C1_NoChangeNoEffect ==
    (cmd = "edit" /\ output # NoneText /\ output = secrets) =>
        /\ ~Has("updateNotes")
        /\ ~Has("stamp:last edited at")
        /\ ~Has("stamp:last imported at")
        /\ ~Has("prompt") /\ answers = << >>
        /\ remoteCalls = 0 /\ requests = << >>
        /\ items[item_id].notes = secrets
        /\ items[item_id].edited = 0 /\ items[item_id].imported = 0
        /\ pc \in {"compare", "returned", "exited"}
        /\ failedAt = NoStep
        /\ (pc = "exited" => exitCode = 0)

C1_Witness ==
    /\ cmd = "edit" /\ output = secrets /\ Has("editor")
    /\ Has("print:nochanges") /\ pc = "exited" /\ exitCode = 0

\* C2: in Remote Edit the temporary file is created only after the notes
\* were fetched, the editor finds the fetched text on disk when it is
\* launched (the file was flushed), the file exists only while the editing
\* step runs, and it is deleted before any vault write, stamp, prompt or
\* Remote Import of the run, also when the editor or the re-read fails.
C2_TmpFileScoped ==
    /\ (tmp.state # "none" => secrets # NoneText /\ Has("getNotes"))
    /\ (editorSaw # NoneText => editorSaw = secrets)
    /\ (tmp.state = "open" => frame = "edit" /\ pc \in {"editor", "reread"})
    /\ (failedAt \in { <<"edit", "editor">>, <<"edit", "reread">> }
          => tmp.state = "deleted")
    /\ ( cmd = "edit"
          /\ ( \/ Has("updateNotes") \/ Has("stamp:last edited at")
              \/ Has("prompt") \/ Has("call:import")
              \/ remoteCalls > 0
              \/ Has("print:nochanges") )
          => tmp.state = "deleted" )

C2_Witness ==
    /\ failedAt = <<"edit", "editor">> /\ failKind = "ExternalProcessError"
    /\ editorSaw = secrets /\ tmp.state = "deleted" /\ pc = "exited"

\* C3 as stated: the release-version message is printed only after the
\* `last imported at` stamp was written.
C3_PrintAfterStamp ==
    /\ Before("replaceAllSecrets", "stamp:last imported at")
    /\ Before("stamp:last imported at", "print:release")

\* C3 amended: Remote Import calls replaceAllSecrets with the app id and
\* the parsed SecretSet, then prints the release-version message, then
\* stamps `last imported at` on the looked-up item; the stamp is never
\* written in a run in which the release-version message has not been
\* printed.
C3_PrintThenStamp ==
    /\ Before("replaceAllSecrets", "print:release")
    /\ Before("print:release", "stamp:last imported at")
    /\ ( Has("replaceAllSecrets") =>
           LET parsed == get_secrets_from_envs(items[item_id].notes)
               sent == requests[1]
           IN  /\ Len(requests) = 1
               /\ sent.appId = AppName
               /\ Len(sent.secrets) = Len(parsed)
               /\ \A i \in DOMAIN parsed :
                     /\ sent.secrets[i].key = parsed[i][1]
                     /\ sent.secrets[i].value = parsed[i][2] )
    /\ ( Has("stamp:last imported at") =>
           /\ item_id = FirstItemId(secure_notes, TFly)
           /\ items[item_id].imported = 1 )

C3_Witness ==
    /\ cmd = "import" /\ pc = "exited" /\ exitCode = 0
    /\ Has("print:release") /\ Has("stamp:last imported at")

\* What a failed step leaves behind.
C4_Left ==
    /\ ( ( \/ failedAt[2] = "lookup"
           \/ failedAt[2] = "fetch" /\ failKind = "EmptySecretsError" )
         => /\ remoteCalls = 0 /\ requests = << >> /\ written = {}
            /\ ~Has("stamp:last imported at")
            /\ remote.version = 0
            /\ ( failedAt[1] = cmd =>
                   /\ ~Has("updateNotes") /\ ~Has("stamp:last edited at")
                   /\ \A i \in ItemIds :
                         items[i].edited = 0 /\ items[i].imported = 0 ) )
    /\ ( failKind = "RemoteApiError" =>
           /\ ~Has("stamp:last imported at")
           /\ \A i \in ItemIds : items[i].imported = 0 )
    /\ ( failedAt = <<"import", "stamp">> =>
           /\ remote.version = 1
           /\ remote.secrets = requests[1].secrets
           /\ items[item_id].imported = 0 )
    /\ ( failedAt = <<"edit", "stamp">> =>
           items[item_id].notes = output /\ items[item_id].edited = 0 )

\* C4: the first step that fails is terminal: once a step has failed no
\* later step runs and nothing is retried (the vault, fly, the local files
\* and the observable events stay as they are), and what the earlier steps
\* did is left in place: a failed lookup or an empty notes field leaves no
\* vault write, remote call or file write, a GraphQL error leaves no `last
\* imported at` stamp, and a failed stamp leaves fly updated and the item
\* unstamped.
C4_FirstFailureTerminal ==
    /\ []C4_Left
    /\ [][ failedAt # NoStep =>
             UNCHANGED <<items, files, remote, tmp, requests, remoteCalls,
                         written, readFrom, answers, log, failedAt,
                         failKind>> ]_vars

C4_Witness ==
    /\ failedAt = <<"import", "stamp">> /\ pc = "exited"
    /\ remote.version = 1 /\ items[item_id].imported = 0

\* The workflow of this invocation ran to its last statement.
RanToEnd ==
    /\ log # << >>
    /\ CASE cmd = "import" -> Last(log) = "stamp:last imported at"
         [] cmd = "get"    -> Last(log) = "print:updated"
         [] cmd = "push"   -> Last(log) = "print:pushed"
         [] cmd = "edit"   ->
              \/ Last(log) = "print:nochanges"
              \/ Last(log) = "prompt" /\ Last(answers) \in NoAnswers
              \/ Last(log) = "stamp:last imported at"

\* C5: the exit code is 0 exactly when the selected workflow ran to its
\* end without a failing step (Remote Edit stopping on "No changes
\* detected" included), and 1 when a step failed.
C5_ExitCode ==
    /\ (pc # "exited" => exitCode = -1)
    /\ ( pc = "exited" =>
           /\ exitCode \in {0, 1}
           /\ (exitCode = 0 <=> failedAt = NoStep)
           /\ (exitCode = 0 <=> RanToEnd)
           /\ (exitCode = 1 <=> failKind # "none") )

C5_Witness ==
    /\ pc = "exited" /\ exitCode = 1
    /\ failKind = "UnparsableRemoteError"

\* C6: the mutation variables sent to fly have replaceAll = true and one
\* {key, value} entry per key of the SecretSet, in its order and with its
\* value; empty values are sent, nothing is dropped and nothing is added.
C6_PayloadIsSecretSet ==
    \A r \in DOMAIN requests :
        /\ requests[r].replaceAll = TRUE
        /\ Len(requests[r].secrets) = Len(secretSet)
        /\ \A i \in DOMAIN secretSet :
              /\ requests[r].secrets[i].key = secretSet[i][1]
              /\ requests[r].secrets[i].value = secretSet[i][2]
        /\ \A i, j \in DOMAIN requests[r].secrets :
              requests[r].secrets[i].key = requests[r].secrets[j].key
                => i = j

C6_Witness ==
    /\ Len(requests) = 1 /\ Len(secretSet) = 2
    /\ requests[1].secrets =
         << [key |-> "A", value |-> "1"], [key |-> "B", value |-> ""] >>

\* The file C7 as stated names: `file_name` whenever the field is present.
C7_NamedFile ==
    IF items[item_id].file_name # NoneName
    THEN items[item_id].file_name ELSE DEFAULT_ENV_FILE_NAME

\* C7 as stated: Local Get writes, and Local Push reads, the file named by
\* the `file_name` field when the field is present and `.env` when absent.
C7_FieldPresent ==
    /\ (Has("file_write") => written = {C7_NamedFile})
    /\ (Has("file_read") => readFrom = {C7_NamedFile})

\* The file the amended C7 names.
C7_TargetFile ==
    IF items[item_id].file_name \notin {NoneName, ""}
    THEN items[item_id].file_name ELSE DEFAULT_ENV_FILE_NAME

\* C7 amended: Local Get overwrites exactly one local file with the raw
\* notes text: the file named by the item's `file_name` field when the
\* field is present with a non-empty value, and `.env` when the item has no
\* `file_name` field or the field is empty; neither is an error. Local Push
\* reads from the file chosen by the same rule.
C7_FieldNonEmpty ==
    /\ ( Has("file_write") =>
           /\ written = {C7_TargetFile}
           /\ files[C7_TargetFile] = items[item_id].notes
           /\ (prevCmd = "none" =>
                 \A f \in FileNames \ {C7_TargetFile} : files[f] = OldText) )
    /\ (Has("file_read") =>
           /\ readFrom = {C7_TargetFile}
           /\ secrets = TextRead(files[C7_TargetFile]))
    /\ (~Has("file_write") => written = {})
    /\ (failedAt[2] = "fname" => failKind = "ExternalProcessError")

C7_Witness ==
    /\ cmd = "get" /\ pc = "exited" /\ exitCode = 0
    /\ items[item_id].file_name = "secrets.env"
    /\ written = {"secrets.env"}
    /\ files["secrets.env"] # OldText

\* C8: a remote URL made of scheme, host, owner and name followed by the
\* literal suffix `.git` resolves to owner/name, and every URL that does not
\* end in the literal `.git` fails with the unparsable-remote error.
C8_LiteralDotGit ==
    (pc # "git" /\ gitRemote # NoOrigin) =>
        /\ ( gitRemote.scheme \in {"https", "git"}
               /\ gitRemote.suffix = ".git"
             => /\ failedAt = NoStep
                /\ repository = Chars(gitRemote.owner) \o Chars("/")
                                  \o Chars(gitRemote.name) )
        /\ ( gitRemote.suffix # ".git"
             => failKind = "UnparsableRemoteError" )

\* C10: Local Push followed by Local Get is a round trip for every content
\* of the local file: a successful push never leaves notesPlain empty, and
\* a following get (the vault CLI and the file system working) succeeds
\* and leaves the file with exactly the pushed content.
C10_PushGetRoundTrip ==
    /\ ( cmd = "push" /\ pc = "exited" /\ exitCode = 0
           => ~EmptySecrets(items[item_id].notes) )
    /\ ( prevCmd = "push" /\ pc = "exited"
           /\ failKind \notin {"ExternalProcessError", "OSError"}
           => /\ exitCode = 0
              /\ files[env_file_name] = pushedText )

\* C9: in Remote Edit with changed content the prompt comes only after
\* updateNotesField and the `last edited at` stamp succeeded, is repeated
\* while the answer is not y or n in either case, is left at the first such
\* answer, and Remote Import runs if and only if that answer is y or Y;
\* after n or N no call to fly is made.
C9_PromptLoop ==
    /\ Before("updateNotes", "stamp:last edited at")
    /\ Before("stamp:last edited at", "prompt")
    /\ Cardinality({i \in DOMAIN log : log[i] = "prompt"}) = Len(answers)
    /\ \A i \in 1..(Len(answers) - 1) : answers[i] \notin YesNo
    /\ (pc = "prompt" => \A i \in DOMAIN answers : answers[i] \notin YesNo)
    /\ (answers # << >> /\ failedAt # <<"edit", "prompt">> /\ pc # "prompt"
          => Last(answers) \in YesNo)
    /\ ( Has("call:import") <=>
           /\ answers # << >> /\ Last(answers) \in YesAnswers
           /\ pc # "decide" )
    /\ ( answers # << >> /\ Last(answers) \in NoAnswers =>
           /\ remoteCalls = 0 /\ requests = << >> /\ frame = "edit"
           /\ pc \in {"decide", "returned", "exited"} )
    /\ ( answers # << >> /\ Last(answers) \in YesAnswers =>
           pc = "decide" \/ frame = "import" )

C9_Witness ==
    /\ Len(answers) >= 2 /\ Last(answers) = <<"Y">>
    /\ Has("replaceAllSecrets") /\ pc = "exited"
====
